---- MODULE Spec2Model ----
(***************************************************************************)
(* The DINX backend (server.js): POST /api/chat relays one chat request to *)
(* the LLM provider, after an optional Tavily web search.                  *)
(*                                                                         *)
(* A JavaScript value is a record [t, v]: t is its type and v, for a       *)
(* string, its text.  A text is a sequence of symbols: text that comes     *)
(* from a client or a provider is spelled symbol by symbol, a literal of   *)
(* the program is one symbol.  The empty string is Str(<<>>).              *)
(***************************************************************************)
EXTENDS Naturals, Sequences, FiniteSets, TLC

\* ------------------------------------------------------------ bounds
\* Longest filler put in front of a sample message text.
MaxPad == 0
\* Most results the search provider returns in one response.
MaxResults == 4

\* ------------------------------------------------------------ JS values
Undefined == [t |-> "undefined", v |-> <<>>]
JsonNull == [t |-> "null", v |-> <<>>]
Str(s) == [t |-> "string", v |-> s]
\* A non-zero number in a JSON body (a truthy value that is no string).
Num(s) == [t |-> "number", v |-> s]

\* JavaScript truthiness of the values above (!x is ~Truthy(x)).
Truthy(x) ==
    \/ x.t = "string" /\ x.v # <<>>
    \/ x.t = "number"

Min(a, b) == IF a < b THEN a ELSE b

\* ------------------------------------------------------------ shouldUseWeb
UPPER == <<"A","B","C","D","E","F","G","H","I","J","K","L","M","N","O","P","Q","R","S","T","U","V","W","X","Y","Z">>
LOWER == <<"a","b","c","d","e","f","g","h","i","j","k","l","m","n","o","p","q","r","s","t","u","v","w","x","y","z">>

toLowerCase(s) ==
    [i \in 1..Len(s) |->
        IF \E k \in 1..Len(UPPER) : UPPER[k] = s[i]
        THEN LOWER[CHOOSE k \in 1..Len(UPPER) : UPPER[k] = s[i]]
        ELSE s[i]]

\* String.prototype.includes: word occurs in text as a contiguous run.
includes(text, word) ==
    \E i \in 0..Len(text) :
        /\ i + Len(word) <= Len(text)
        /\ SubSeq(text, i + 1, i + Len(word)) = word

triggers == {
    <<"l","a","t","e","s","t">>,
    <<"t","o","d","a","y">>,
    <<"c","u","r","r","e","n","t">>,
    <<"n","e","w","s">>,
    <<"r","i","g","h","t"," ","n","o","w">>,
    <<"p","r","i","c","e"," ","o","f">>,
    <<"s","t","o","c","k">>,
    <<"w","e","a","t","h","e","r">>,
    <<"l","i","v","e">>,
    <<"u","p","d","a","t","e">>,
    <<"w","h","o"," ","i","s">>,
    <<"w","h","a","t"," ","i","s">>,
    <<"s","e","a","r","c","h">>,
    <<"o","n"," ","t","h","e"," ","i","n","t","e","r","n","e","t">> }

shouldUseWeb_always(message) == Truthy(message)

\* shouldUseWeb of a message that is undefined or a string.
shouldUseWeb(message) ==
    IF ~Truthy(message) THEN FALSE
    ELSE \E word \in triggers : includes(toLowerCase(message.v), word)

\* message.toLowerCase is not a function: a truthy message that is no string.
shouldUseWebThrows(message) == Truthy(message) /\ message.t # "string"

\* ------------------------------------------------------------ searchWebWithTavily
RECURSIVE join(_, _)
\* Array.prototype.join of an array of texts.
join(parts, sep) ==
    IF parts = <<>> THEN <<>>
    ELSE IF Len(parts) = 1 THEN parts[1]
    ELSE parts[1] \o sep \o join(Tail(parts), sep)

\* The literals "• " and " — " of the result template.
Bullet == "(U+2022) "
Dash == " (U+2014) "

\* The n-th result of a search response.
Result(n) ==
    [title |-> <<"T", ToString(n)>>, url |-> <<"U", ToString(n)>>,
     content |-> <<"C", ToString(n)>>]

\* What response.json() of a successful search response gives: it rejects
\* ("unparsable"), or yields null, an object whose results is no array
\* ("badResults"), or an object with an optional answer and n results.
TavilyBodies ==
    {[kind |-> k, answer |-> Undefined, results |-> <<>>] :
        k \in {"unparsable", "null", "badResults"}}
    \cup {[kind |-> "object", answer |-> a, results |-> [i \in 1..n |-> Result(i)]] :
            a \in {Undefined, Str(<<"A">>)}, n \in 0..MaxResults}

\* Reading the parsed body raises a TypeError.
formatThrows(data) == data.kind \in {"null", "badResults"}

\* The context string built from a parsed search response.
formatContext(data) ==
    (IF Truthy(data.answer) THEN <<"Answer: ">> \o data.answer.v \o <<"\n\n">> ELSE <<>>)
    \o join([i \in 1..Min(3, Len(data.results)) |->
                <<Bullet>> \o data.results[i].title \o <<Dash>> \o data.results[i].url
                \o <<"\n">> \o data.results[i].content],
            <<"\n\n">>)

\* ------------------------------------------------------------ the chat handler
DEFAULT_SYSTEM ==
    <<"You are DINX, a precise, helpful design assistant. Use web context if provided, and say when information may be out of date.">>
WEB_PREFIX ==
    <<"Here is information from a live web search. Use it carefully in your answer:\n\n">>
NO_REPLY == <<"No reply from model.">>

Msg(role, content) == [role |-> role, content |-> content]

buildMessages_always3(system, webInfo, message) ==
    <<Msg("system", IF Truthy(system) THEN system ELSE Str(DEFAULT_SYSTEM)),
      Msg("system", Str(WEB_PREFIX \o webInfo)),
      Msg("user", message)>>

\* The message list of the completion request; webInfo is a text.
buildMessages(system, webInfo, message) ==
    <<Msg("system", IF Truthy(system) THEN system ELSE Str(DEFAULT_SYSTEM))>>
    \o (IF webInfo # <<>> THEN <<Msg("system", Str(WEB_PREFIX \o webInfo))>> ELSE <<>>)
    \o <<Msg("user", message)>>

\* An HTTP response of the endpoint: status and JSON body.
Response(status, error, details, reply) ==
    [status |-> status, error |-> error, details |-> details, reply |-> reply]

KeyNotSet == Response(500, Str(<<"GROQ_API_KEY not set on server.">>), Undefined, Undefined)
BadRequest == Response(400, Str(<<"model and message are required.">>), Undefined, Undefined)
ServerError == Response(500, Str(<<"Server error talking to LLM.">>), Undefined, Undefined)

groqErrorResponse_nodetails(errorText) ==
    Response(500, Str(<<"Groq API error">>), Undefined, Undefined)

groqErrorResponse(errorText) ==
    Response(500, Str(<<"Groq API error">>), errorText, Undefined)

replyOf_raw(content) == content

\* data.choices?.[0]?.message?.content || 'No reply from model.'
replyOf(content) == IF Truthy(content) THEN content ELSE Str(NO_REPLY)

missingInput_modelOnly(model, message) == ~Truthy(model)

\* !model || !message
missingInput(model, message) == ~Truthy(model) \/ ~Truthy(message)

\* ------------------------------------------------------------ inputs
Reqs == {"r1", "r2"}

Pads == {[i \in 1..n |-> "a"] : n \in 0..MaxPad}
Cores == {<<>>, <<"h","i">>, <<"L","i","V","e">>}
Texts == {p \o c : p \in Pads, c \in Cores}

Models == {Undefined, Str(<<>>), Str(<<"m">>)}
Systems == {Undefined, Str(<<"S">>)}
Messages == {Undefined, Num(<<"5">>)} \cup {Str(s) : s \in Texts}
\* req.body as express.json() leaves it: a parsed JSON object.
Bodies == [model : Models, system : Systems, message : Messages]

Keys == {Undefined, Str(<<"key">>)}

\* Error texts of the LLM provider.
ErrorTexts == {Str(<<"E">>)}
\* content of the first choice of a completion, Undefined when there is none.
Contents == {Undefined, Str(<<>>), Str(<<"R">>)}

NoBody == [model |-> Undefined, system |-> Undefined, message |-> Undefined]
NoRequest == [model |-> Undefined, messages |-> <<>>, authorization |-> <<>>]
\* What is known of the completion call: status is "none" (not made),
\* "pending", "transport" (fetch rejected), "error" (non-success status) or
\* "success"; body is what reading the response body gave.
NotRead == [t |-> "notread", v |-> <<>>]
Unreadable == [t |-> "unreadable", v |-> <<>>]
NoCall == [status |-> "none", body |-> NotRead]

VARIABLES
    GROQ_API_KEY,    \* process.env.GROQ_API_KEY, read once at startup
    TAVILY_API_KEY,  \* process.env.TAVILY_API_KEY, read once at startup
    pc,              \* per request: where its handler is suspended
    body,            \* per request: req.body
    webInfo,         \* per request: the handler's webInfo (a text)
    groqReq,         \* per request: the JSON body and bearer of the completion call
    calls,           \* per request: the outbound calls issued, in order
    res,             \* per request: the responses sent on res, in order
    exc,             \* per request: the exception that reached the handler's catch
    searchFail,      \* per request: how the search failed, "none" if it did not
    llm,             \* per request: the outcome of the completion call
    crashed          \* an exception escaped a handler (unhandled rejection)

vars == <<GROQ_API_KEY, TAVILY_API_KEY, pc, body, webInfo, groqReq, calls, res,
          exc, searchFail, llm, crashed>>

Init ==
    /\ GROQ_API_KEY \in Keys
    /\ TAVILY_API_KEY \in Keys
    /\ pc = [r \in Reqs |-> "idle"]
    /\ body = [r \in Reqs |-> NoBody]
    /\ webInfo = [r \in Reqs |-> <<>>]
    /\ groqReq = [r \in Reqs |-> NoRequest]
    /\ calls = [r \in Reqs |-> <<>>]
    /\ res = [r \in Reqs |-> <<>>]
    /\ exc = [r \in Reqs |-> "none"]
    /\ searchFail = [r \in Reqs |-> "none"]
    /\ llm = [r \in Reqs |-> NoCall]
    /\ crashed = FALSE

\* ------------------------------------------------------------ handler steps
keys == <<GROQ_API_KEY, TAVILY_API_KEY>>

groqKeyMissing_never == FALSE

\* !GROQ_API_KEY at the head of the handler.
groqKeyMissing == ~Truthy(GROQ_API_KEY)

searchDisabled_never == FALSE

\* !TAVILY_API_KEY at the head of searchWebWithTavily.
searchDisabled == ~Truthy(TAVILY_API_KEY)

callGroq_retry(r, b, w) ==
    /\ webInfo' = [webInfo EXCEPT ![r] = w]
    /\ groqReq' = [groqReq EXCEPT ![r] =
            [model |-> b.model,
             messages |-> buildMessages(b.system, w, b.message),
             authorization |-> <<"Bearer ">> \o GROQ_API_KEY.v]]
    /\ calls' = [calls EXCEPT ![r] = @ \o <<"completion", "completion">>]
    /\ llm' = [llm EXCEPT ![r] = [status |-> "pending", body |-> NotRead]]
    /\ pc' = [pc EXCEPT ![r] = "groqFetch"]
    /\ UNCHANGED <<res, exc, crashed>>

\* res.status(..).json(..) and the handler's return: its locals are gone.
respond(r, response) ==
    /\ res' = [res EXCEPT ![r] = Append(@, response)]
    /\ pc' = [pc EXCEPT ![r] = "done"]
    /\ webInfo' = [webInfo EXCEPT ![r] = <<>>]
    /\ groqReq' = [groqReq EXCEPT ![r] = NoRequest]
    /\ UNCHANGED <<calls, crashed>>

handlerCatch_uncaught(r) ==
    /\ crashed' = TRUE
    /\ pc' = [pc EXCEPT ![r] = "aborted"]
    /\ UNCHANGED <<res, webInfo, groqReq, calls>>

\* The catch block of the handler.
handlerCatch(r) == respond(r, ServerError)

\* An exception raised in the handler's try block, outside the search.
throw(r, what) ==
    /\ exc' = [exc EXCEPT ![r] = what]
    /\ handlerCatch(r)

\* Steps 2 and 3 of the handler, up to the await of the completion fetch:
\* build the message list with web context w and issue the completion call.
callGroq(r, b, w) ==
    /\ webInfo' = [webInfo EXCEPT ![r] = w]
    /\ groqReq' = [groqReq EXCEPT ![r] =
            [model |-> b.model,
             messages |-> buildMessages(b.system, w, b.message),
             authorization |-> <<"Bearer ">> \o GROQ_API_KEY.v]]
    /\ calls' = [calls EXCEPT ![r] = Append(@, "completion")]
    /\ llm' = [llm EXCEPT ![r] = [status |-> "pending", body |-> NotRead]]
    /\ pc' = [pc EXCEPT ![r] = "groqFetch"]
    /\ UNCHANGED <<res, exc, crashed>>

\* searchWebWithTavily resolves with w and the handler goes on.
searchReturns(r, w, how) ==
    /\ searchFail' = [searchFail EXCEPT ![r] = how]
    /\ callGroq(r, body[r], w)
    /\ UNCHANGED <<body, keys>>

searchFails_propagates(r, how) ==
    /\ searchFail' = [searchFail EXCEPT ![r] = how]
    /\ throw(r, "search")
    /\ UNCHANGED <<body, keys, llm>>

\* The failure paths of searchWebWithTavily: log, return ''.
searchFails(r, how) == searchReturns(r, <<>>, how)

\* The handler from its entry to its first await or its return.
Receive(r) ==
    /\ pc[r] = "idle"
    /\ ~crashed
    /\ \E b \in Bodies :
        /\ body' = [body EXCEPT ![r] = b]
        /\ UNCHANGED keys
        /\ IF groqKeyMissing
           THEN respond(r, KeyNotSet) /\ UNCHANGED <<exc, searchFail, llm>>
           ELSE IF missingInput(b.model, b.message)
           THEN respond(r, BadRequest) /\ UNCHANGED <<exc, searchFail, llm>>
           ELSE IF shouldUseWebThrows(b.message)
           THEN throw(r, "shouldUseWeb") /\ UNCHANGED <<searchFail, llm>>
           ELSE IF shouldUseWeb(b.message) /\ ~searchDisabled
           THEN /\ pc' = [pc EXCEPT ![r] = "tavilyFetch"]
                /\ calls' = [calls EXCEPT ![r] = Append(@, "search")]
                /\ UNCHANGED <<webInfo, groqReq, res, exc, searchFail, llm, crashed>>
           ELSE callGroq(r, b, <<>>) /\ UNCHANGED searchFail

\* The search fetch settles: a success status, another status, or a rejection.
TavilyFetchReturns(r) ==
    /\ pc[r] = "tavilyFetch"
    /\ ~crashed
    /\ \E outcome \in {"ok", "status", "transport"} :
        IF outcome = "ok"
        THEN /\ pc' = [pc EXCEPT ![r] = "tavilyJson"]
             /\ UNCHANGED <<keys, body, webInfo, groqReq, calls, res, exc,
                            searchFail, llm, crashed>>
        ELSE IF outcome = "status"
        THEN /\ pc' = [pc EXCEPT ![r] = "tavilyText"]
             /\ searchFail' = [searchFail EXCEPT ![r] = "status"]
             /\ UNCHANGED <<keys, body, webInfo, groqReq, calls, res, exc, llm, crashed>>
        ELSE searchFails(r, "transport")

\* response.text() of a failed search settles (read or rejected): return ''.
TavilyText(r) ==
    /\ pc[r] = "tavilyText"
    /\ ~crashed
    /\ searchFails(r, "status")

\* response.json() of a successful search settles.
TavilyJson(r) ==
    /\ pc[r] = "tavilyJson"
    /\ ~crashed
    /\ \E data \in TavilyBodies :
        IF data.kind = "unparsable" \/ formatThrows(data)
        THEN searchFails(r, "body")
        ELSE searchReturns(r, formatContext(data), "none")

\* The completion fetch settles.
GroqFetchReturns(r) ==
    /\ pc[r] = "groqFetch"
    /\ ~crashed
    /\ UNCHANGED <<keys, body, searchFail>>
    /\ \E outcome \in {"success", "error", "transport"} :
        /\ llm' = [llm EXCEPT ![r].status = outcome]
        /\ IF outcome = "success"
           THEN /\ pc' = [pc EXCEPT ![r] = "groqJson"]
                /\ UNCHANGED <<webInfo, groqReq, calls, res, exc, crashed>>
           ELSE IF outcome = "error"
           THEN /\ pc' = [pc EXCEPT ![r] = "groqText"]
                /\ UNCHANGED <<webInfo, groqReq, calls, res, exc, crashed>>
           ELSE throw(r, "groqFetch")

\* groqRes.text() of a failed completion settles.
GroqText(r) ==
    /\ pc[r] = "groqText"
    /\ ~crashed
    /\ UNCHANGED <<keys, body, searchFail>>
    /\ \E errorText \in ErrorTexts \cup {Unreadable} :
        /\ llm' = [llm EXCEPT ![r].body = errorText]
        /\ IF errorText = Unreadable
           THEN throw(r, "groqText")
           ELSE respond(r, groqErrorResponse(errorText)) /\ UNCHANGED exc

\* groqRes.json() of a successful completion settles: it rejects, or yields
\* null, or an object whose first choice has the given content (Undefined
\* when choices, its first entry, its message or its content is absent).
GroqJson(r) ==
    /\ pc[r] = "groqJson"
    /\ ~crashed
    /\ UNCHANGED <<keys, body, searchFail>>
    /\ \E data \in Contents \cup {Unreadable, JsonNull} :
        /\ llm' = [llm EXCEPT ![r].body = data]
        /\ IF data = Unreadable THEN throw(r, "groqJson")
           ELSE IF data = JsonNull THEN throw(r, "groqData")
           ELSE /\ respond(r, Response(200, Undefined, Undefined, replyOf(data)))
                /\ UNCHANGED exc

\* A step of request r after its receipt: an awaited call settles.
Settle(r) ==
    \/ TavilyFetchReturns(r)
    \/ TavilyText(r)
    \/ TavilyJson(r)
    \/ GroqFetchReturns(r)
    \/ GroqText(r)
    \/ GroqJson(r)

Next ==
    \E r \in Reqs :
        \/ Receive(r)
        \/ TavilyFetchReturns(r)
        \/ TavilyText(r)
        \/ TavilyJson(r)
        \/ GroqFetchReturns(r)
        \/ GroqText(r)
        \/ GroqJson(r)

Spec == Init /\ [][Next]_vars

\* Every outbound call of every request eventually settles.
LiveSpec == Spec /\ \A r \in Reqs : WF_vars(Settle(r))

\* ------------------------------------------------------------ properties
Done(r) == pc[r] = "done"
Received(r) == pc[r] # "idle"
InGroq(r) == pc[r] \in {"groqFetch", "groqText", "groqJson"}
InTavily(r) == pc[r] \in {"tavilyFetch", "tavilyText", "tavilyJson"}
ValidBody(b) == Truthy(b.model) /\ Truthy(b.message)
\* The lower-cased text holds one of the trigger substrings.
HasTrigger(text) ==
    \E w \in triggers :
        \E i \in 1..Len(text) :
            /\ i + Len(w) - 1 <= Len(text)
            /\ \A k \in 1..Len(w) : toLowerCase(<<text[i + k - 1]>>) = <<w[k]>>
Roles(messages) == [i \in 1..Len(messages) |-> messages[i].role]

\* The response the completion call's outcome alone calls for.
ResponseFor(outcome) ==
    IF outcome.status = "transport" THEN ServerError
    ELSE IF outcome.status = "error"
    THEN (IF outcome.body = Unreadable THEN ServerError
          ELSE Response(500, Str(<<"Groq API error">>), outcome.body, Undefined))
    ELSE IF outcome.body \in {Unreadable, JsonNull} THEN ServerError
    ELSE Response(200, Undefined, Undefined,
                  IF outcome.body.t = "string" /\ outcome.body.v # <<>>
                  THEN outcome.body ELSE Str(NO_REPLY))

\* C1 as stated: a request whose model or message is missing or empty is
\* answered 400 with no outbound call, in every configuration.
C1_BadRequestAnyConfig ==
    \A r \in Reqs :
        (Done(r) /\ ~ValidBody(body[r])) =>
            /\ Len(res[r]) = 1 /\ res[r][1].status = 400
            /\ calls[r] = <<>>

\* C1 amended: when the LLM credential is set, a request whose model or
\* message is missing or empty is answered 400 (once, with the
\* client-input error) and makes no outbound call; with the credential
\* unset it is answered 500, with no outbound call either.
C1_BadRequest ==
    \A r \in Reqs :
        (Received(r) /\ ~ValidBody(body[r])) =>
            /\ Done(r)
            /\ calls[r] = <<>>
            /\ res[r] = <<IF Truthy(GROQ_API_KEY) THEN BadRequest ELSE KeyNotSet>>

C1_Witness ==
    \E r \in Reqs :
        /\ Done(r) /\ Truthy(GROQ_API_KEY) /\ Truthy(TAVILY_API_KEY)
        /\ Truthy(body[r].model) /\ body[r].message = Undefined
        /\ res[r][1].status = 400 /\ calls[r] = <<>>

\* C2: with the LLM credential unset every request, whatever its body, is
\* answered 500 and makes no outbound call.
C2_NoKey500 ==
    ~Truthy(GROQ_API_KEY) =>
        \A r \in Reqs :
            /\ calls[r] = <<>>
            /\ Received(r) =>
                /\ Done(r)
                /\ Len(res[r]) = 1 /\ res[r][1].status = 500

C2_Witness ==
    /\ ~Truthy(GROQ_API_KEY)
    /\ \E r \in Reqs :
        /\ Done(r) /\ ValidBody(body[r]) /\ body[r].message.t = "string"
        /\ HasTrigger(body[r].message.v)
        /\ res[r][1].status = 500
    /\ \E r \in Reqs : Done(r) /\ ~ValidBody(body[r]) /\ res[r][1].status = 500

\* C3 as stated: a valid request whose completion call returns a
\* non-success status is answered 500 with the provider's raw error text in
\* the details field.
C3_ProviderErrorDetails ==
    \A r \in Reqs :
        (Done(r) /\ llm[r].status = "error") =>
            /\ Len(res[r]) = 1 /\ res[r][1].status = 500
            /\ res[r][1].details.t = "string"

\* C3 amended: a valid request whose completion call returns a non-success
\* status is answered 500, never 200 or 400, whether or not a search was
\* made; the body carries the provider's raw error text in details when
\* that text could be read, and is the generic server error, without
\* details, when reading the error body fails.
C3_ProviderError ==
    \A r \in Reqs :
        (Received(r) /\ llm[r].status = "error") =>
            /\ ValidBody(body[r]) /\ Truthy(GROQ_API_KEY)
            /\ pc[r] \in {"groqText", "done"}
            /\ Done(r) =>
                /\ Len(res[r]) = 1 /\ res[r][1].status = 500
                /\ llm[r].body \in ErrorTexts =>
                    /\ res[r][1].details = llm[r].body
                    /\ res[r][1].error = Str(<<"Groq API error">>)
                /\ llm[r].body = Unreadable => res[r][1] = ServerError

C3_Witness ==
    \E r \in Reqs :
        /\ Done(r) /\ llm[r].status = "error" /\ llm[r].body \in ErrorTexts
        /\ calls[r] = <<"search", "completion">>
        /\ res[r][1].details = llm[r].body

\* C4: a failed search (non-success status, transport exception, malformed
\* body) is absorbed: searchWebWithTavily returns '' without throwing, the
\* completion call is still issued, with no search-context message, and the
\* response is the one the completion call's outcome alone calls for.
C4_SearchFailOpen ==
    \A r \in Reqs :
        searchFail[r] # "none" =>
            /\ exc[r] \in {"none", "groqFetch", "groqText", "groqJson", "groqData"}
            /\ pc[r] \in {"tavilyText", "groqFetch", "groqText", "groqJson", "done"}
            /\ pc[r] # "tavilyText" => calls[r] = <<"search", "completion">>
            /\ InGroq(r) =>
                /\ webInfo[r] = <<>>
                /\ Roles(groqReq[r].messages) = <<"system", "user">>
            /\ Done(r) =>
                /\ llm[r].status \in {"transport", "error", "success"}
                /\ res[r] = <<ResponseFor(llm[r])>>

C4_Witness ==
    /\ \E r \in Reqs :
        /\ searchFail[r] = "body" /\ Done(r)
        /\ res[r][1].status = 200 /\ res[r][1].reply = Str(<<"R">>)
    /\ \E r \in Reqs :
        /\ searchFail[r] \in {"status", "transport"} /\ pc[r] = "groqFetch"
        /\ Len(groqReq[r].messages) = 2

\* C5: with the search credential unset no request ever calls the search
\* provider, even when its message holds a trigger: the request goes on to
\* the completion call with the 2-entry list (system, user) and its
\* response is the one the completion call's outcome alone calls for.
C5_SearchDisabled ==
    ~Truthy(TAVILY_API_KEY) =>
        \A r \in Reqs :
            /\ ~(\E i \in 1..Len(calls[r]) : calls[r][i] = "search")
            /\ searchFail[r] = "none"
            /\ InGroq(r) => Roles(groqReq[r].messages) = <<"system", "user">>
            /\ (/\ Received(r) /\ Truthy(GROQ_API_KEY) /\ ValidBody(body[r])
                /\ body[r].message.t = "string") =>
                    /\ calls[r] = <<"completion">>
                    /\ Done(r) => res[r] = <<ResponseFor(llm[r])>>

C5_Witness ==
    /\ ~Truthy(TAVILY_API_KEY)
    /\ \E r \in Reqs :
        /\ body[r].message.t = "string" /\ HasTrigger(body[r].message.v)
        /\ Done(r) /\ calls[r] = <<"completion">>
        /\ res[r][1].status = 200
    /\ \E r \in Reqs :
        /\ body[r].message.t = "string" /\ HasTrigger(body[r].message.v)
        /\ pc[r] = "groqFetch" /\ Len(groqReq[r].messages) = 2

\* The exceptions of the handler outside the search component: the
\* completion fetch rejects, the error body or the body of a successful
\* completion cannot be read, the parsed completion is null, or the message
\* is a truthy value with no toLowerCase.
RaisedOutsideSearch(r) ==
    \/ llm[r].status = "transport"
    \/ llm[r].body \in {Unreadable, JsonNull}
    \/ /\ Received(r) /\ Truthy(GROQ_API_KEY) /\ ValidBody(body[r])
       /\ body[r].message.t # "string"

\* C6: an exception raised in the handler outside the search component is
\* answered 500 with the generic message and no details; the process does
\* not crash and a request not yet received can still be received.
C6_CaughtAtTop ==
    /\ ~crashed
    /\ \A r \in Reqs :
        /\ RaisedOutsideSearch(r) <=> exc[r] # "none"
        /\ exc[r] # "none" =>
            /\ Done(r)
            /\ res[r] = <<ServerError>>
            /\ res[r][1].status = 500 /\ res[r][1].details = Undefined
        /\ pc[r] = "idle" => ENABLED Receive(r)

C6_Witness ==
    \E r \in Reqs, q \in Reqs :
        /\ exc[r] = "groqJson" /\ Done(r) /\ res[r] = <<ServerError>>
        /\ pc[q] = "idle" /\ ENABLED Receive(q)

\* C7: the outbound calls of one request are a straight line without
\* repetition: at most one search, at most one completion, the completion
\* only once the search (if any) has returned or failed, never a search
\* after the completion; an answered request made no call, the completion
\* only, or the search and then the completion.
C7_CallOrder ==
    \A r \in Reqs :
        /\ calls[r] \in {<<>>, <<"search">>, <<"completion">>, <<"search", "completion">>}
        /\ calls[r] = <<"search">> <=> InTavily(r)
        /\ InGroq(r) => calls[r] \in {<<"completion">>, <<"search", "completion">>}
        /\ Done(r) =>
            calls[r] \in {<<>>, <<"completion">>, <<"search", "completion">>}

C7_Witness ==
    \E r \in Reqs, q \in Reqs :
        /\ Done(r) /\ calls[r] = <<"search", "completion">>
        /\ Done(q) /\ calls[q] = <<"completion">>

\* C8: a request with non-empty model and message whose lower-cased message
\* holds no trigger substring never calls the search provider, and its
\* completion request carries exactly the system and the user message.
C8_NoTriggerNoSearch ==
    \A r \in Reqs :
        (/\ Received(r) /\ ValidBody(body[r])
         /\ body[r].message.t = "string" /\ ~HasTrigger(body[r].message.v)) =>
            /\ ~(\E i \in 1..Len(calls[r]) : calls[r][i] = "search")
            /\ ~InTavily(r)
            /\ InGroq(r) =>
                /\ Roles(groqReq[r].messages) = <<"system", "user">>
                /\ groqReq[r].messages[2].content = body[r].message

C8_Witness ==
    \E r \in Reqs :
        /\ Truthy(TAVILY_API_KEY)
        /\ body[r].message = Str(<<"h", "i">>)
        /\ pc[r] = "groqFetch" /\ Len(groqReq[r].messages) = 2

\* C9: every completion request carries 2 or 3 messages: first the system
\* message (the caller's system text when non-empty, else the default
\* prompt), last the user message with the request's message, and between
\* them one search-context system message exactly when the search of that
\* request returned a non-empty context.
C9_MessageList ==
    \A r \in Reqs :
        InGroq(r) =>
            LET m == groqReq[r].messages IN
            /\ Len(m) \in {2, 3}
            /\ m[1] = Msg("system", IF body[r].system.t = "string" /\ body[r].system.v # <<>>
                                    THEN body[r].system ELSE Str(DEFAULT_SYSTEM))
            /\ m[Len(m)] = Msg("user", body[r].message)
            /\ Len(m) = 3 <=> webInfo[r] # <<>>
            /\ Len(m) = 3 =>
                /\ m[2] = Msg("system", Str(WEB_PREFIX \o webInfo[r]))
                /\ calls[r] = <<"search", "completion">>
                /\ searchFail[r] = "none"
            /\ groqReq[r].model = body[r].model

C9_Witness ==
    /\ \E r \in Reqs : InGroq(r) /\ Len(groqReq[r].messages) = 3
    /\ \E r \in Reqs :
        /\ InGroq(r) /\ calls[r] = <<"search", "completion">>
        /\ searchFail[r] = "none" /\ Len(groqReq[r].messages) = 2

\* What C10 says of every state: no request is answered twice, a request is
\* answered exactly when its handler has returned, with status 200, 400 or
\* 500, and a 200 follows a successful completion call and carries a
\* non-empty reply string.
AnsweredAtMostOnce ==
    \A r \in Reqs :
        /\ Len(res[r]) <= 1
        /\ Done(r) <=> Len(res[r]) = 1
        /\ Done(r) =>
            /\ res[r][1].status \in {200, 400, 500}
            /\ res[r][1].status = 200 =>
                /\ llm[r].status = "success"
                /\ calls[r][Len(calls[r])] = "completion"
                /\ res[r][1].reply.t = "string" /\ res[r][1].reply.v # <<>>

====
